---- MODULE Spec2Model ----
(***************************************************************************)
(* Model of fraud_detector.py: a Streamlit script that is executed from    *)
(* top to bottom on every user interaction.  One execution renders the     *)
(* form, checks the API key, and, when the button was clicked, calls the   *)
(* crew once and displays the report or an error.                          *)
(*                                                                         *)
(* Text is modelled as a sequence of tokens (words); "contains verbatim"   *)
(* is the contiguous-subsequence relation on token sequences.  Scores are  *)
(* floats with one decimal, held as an integer number of tenths.           *)
(***************************************************************************)
EXTENDS Integers, Sequences, FiniteSets, TLC

\* ---------------------------------------------------------------- bounds
MaxRuns == 3          \* script executions (user interactions) explored
MaxFactors == 4       \* longest risk_factors list a reply may carry

\* ------------------------------------------------------- program constants
ScoreGe == 0          \* Field(ge=0), in tenths
ScoreLe == 100        \* Field(le=10), in tenths
MinItems == 3         \* Field(min_items=3)
MaxItems == 3         \* Field(max_items=3)
EnumerateStart == 1   \* enumerate(report.risk_factors, 1)

\* ------------------------------------------------------------ input sets
DefaultName == <<"TechCorp", "Solutions">>
DefaultIndustry == <<"AI", "Software">>
DefaultDescription == <<"A", "fast-growing", "AI", "software", "company...">>

Names == {DefaultName, <<>>}
Industries == {DefaultIndustry, <<"fraud">>}
Descriptions == {DefaultDescription, <<"AI">>}

\* os.getenv returns None when the variable is unset
Unset == "<None>"
EnvKeys == {Unset, "", "sk-or-v1"}

Scores == {-5, 0, 75, 100, 110}
Summaries == {"moderate risk"}
FactorTexts == {"a", "b", "c"}
FactorLists == UNION {[1..n -> FactorTexts] : n \in 2..MaxFactors}
Replies == [risk_score : Scores, risk_summary : Summaries, risk_factors : FactorLists]
NoReply == [risk_score |-> 0, risk_summary |-> "", risk_factors |-> <<>>]

TransportErrors == {<<"ConnectionError">>, <<"AuthenticationError">>}
NoExc == <<>>
NoPrompt == [goal |-> <<>>, description |-> <<>>]

\* ---------------------------------------------------------------- text
IsSubSeq(v, s) ==
  \E k \in 0..(Len(s) - Len(v)) : \A i \in 1..Len(v) : s[k + i] = v[i]

\* str(float) for a float with one decimal, given in tenths
FormatFloat(t) ==
  LET a == IF t < 0 THEN -t ELSE t
      digits == <<ToString(a \div 10), ".", ToString(a % 10)>>
  IN IF t < 0 THEN <<"-">> \o digits ELSE digits

\* ------------------------------------------------------------- objects
NoneObj == [type |-> "NoneType", attrs |-> {}]
RawStr == [type |-> "str", attrs |-> {}]

HasAttr(obj, a) == a \in obj.attrs
AttributeError(obj, a) == <<"AttributeError", obj.type, a>>

\* a score check that lost its upper bound
ValidScore_NoUpper(s) == ScoreGe <= s

\* class RiskAssessment(BaseModel): the field constraints
ValidScore(s) == ScoreGe <= s /\ s <= ScoreLe
ValidFactors(fs) == MinItems <= Len(fs) /\ Len(fs) <= MaxItems
Validates(r) == ValidScore(r.risk_score) /\ ValidFactors(r.risk_factors)

RiskAssessment(r) ==
  [type |-> "RiskAssessment",
   attrs |-> {"risk_score", "risk_summary", "risk_factors"},
   risk_score |-> r.risk_score,
   risk_summary |-> r.risk_summary,
   risk_factors |-> r.risk_factors]

\* ------------------------------------------------------ run_fraud_crew
\* Agent(goal=f"Conduct fraud risk analysis for {name} in {industry} sector")
Goal(name, ind) ==
  <<"Conduct", "fraud", "risk", "analysis", "for">> \o name \o <<"in">> \o ind
    \o <<"sector">>

\* Task(description=f"""...""")
TaskDescription(name, ind) ==
  <<"Conduct", "a", "fraud", "risk", "analysis", "for">> \o name
    \o <<",", "a", "company", "in", "the">> \o ind \o <<"sector.">>
    \o <<"Consider:",
         "-", "Common", "fraud", "risks", "in", "this", "industry",
         "-", "Regulatory", "compliance", "concerns",
         "-", "Operational", "or", "financial", "red", "flags",
         "-", "Market", "and", "competition", "context",
         "Provide:",
         "1.", "Risk", "score", "(0-10)",
         "2.", "Summary", "of", "risk",
         "3.", "3", "specific", "contributing", "factors">>

\* what run_fraud_crew(name, industry, info) hands to crew.kickoff()
BuildPrompt(name, ind, info) ==
  [goal |-> Goal(name, ind), description |-> TaskDescription(name, ind)]

PromptContains(p, v) == IsSubSeq(v, p.goal) \/ IsSubSeq(v, p.description)

\* ----------------------------------------------- what crew.kickoff returns
\* output_pydantic=RiskAssessment: the reply becomes a RiskAssessment when
\* it validates; a reply that does not validate yields no model object.
ConvertReply(r) == IF Validates(r) THEN RiskAssessment(r) ELSE NoneObj

TaskOutput(p) == [type |-> "TaskOutput", attrs |-> {"pydantic"}, pydantic |-> p]
LegacyTaskOutput == [type |-> "TaskOutput", attrs |-> {}]

\* the shapes of result the display code prepares for ("both pydantic and
\* raw outputs")
Shapes == {"CrewOutput", "TasksOnly", "LegacyTasks", "EmptyTasks", "Raw", "Model"}

MakeResult(shape, p) ==
  CASE shape = "CrewOutput" ->
         [type |-> "CrewOutput", attrs |-> {"pydantic", "tasks_output"},
          pydantic |-> p, tasks_output |-> <<TaskOutput(p)>>]
    [] shape = "TasksOnly" ->
         [type |-> "CrewResult", attrs |-> {"tasks_output"},
          tasks_output |-> <<TaskOutput(p)>>]
    [] shape = "LegacyTasks" ->
         [type |-> "CrewResult", attrs |-> {"tasks_output"},
          tasks_output |-> <<LegacyTaskOutput>>]
    [] shape = "EmptyTasks" ->
         [type |-> "CrewResult", attrs |-> {"tasks_output"},
          tasks_output |-> <<>>]
    [] shape = "Raw" -> RawStr
    [] shape = "Model" -> p

\* -------------------------------------------------------------- display
Success == [kind |-> "success", body |-> <<"Analysis Complete!">>]
ScoreLine(s) ==
  [kind |-> "markdown", body |-> <<"Risk Score: ">> \o FormatFloat(s) \o <<"/10">>]
SummaryLine(t) == [kind |-> "markdown", body |-> <<"Summary: ", t>>]
FactorsHeader == [kind |-> "markdown", body |-> <<"Top Risk Factors:">>]
FactorLine(i, f) == [kind |-> "markdown", body |-> <<"- ", ToString(i), ". ", f>>]
ErrorBox(e) == [kind |-> "error", body |-> <<"Error: ">> \o e]

\* an enumeration that ignores its start and counts from 0
Enumerate_FromZero(seq, start) == [i \in 1..Len(seq) |-> <<i - 1, seq[i]>>]

\* enumerate(seq, start)
Enumerate(seq, start) == [i \in 1..Len(seq) |-> <<start + i - 1, seq[i]>>]

\* for i, factor in enumerate(report.risk_factors, 1): st.markdown(...)
FactorLines(fs) ==
  LET e == Enumerate(fs, EnumerateStart)
  IN [i \in 1..Len(fs) |-> FactorLine(e[i][1], e[i][2])]

\* the if / elif / else that picks the report out of the result
ExtractReport(res) ==
  IF HasAttr(res, "pydantic")
    THEN [report |-> res.pydantic, exc |-> NoExc]
  ELSE IF HasAttr(res, "tasks_output") /\ Len(res.tasks_output) > 0
    THEN IF HasAttr(res.tasks_output[1], "pydantic")
           THEN [report |-> res.tasks_output[1].pydantic, exc |-> NoExc]
           ELSE [report |-> NoneObj,
                 exc |-> AttributeError(res.tasks_output[1], "pydantic")]
  ELSE [report |-> res, exc |-> NoExc]

\* the st.success / st.markdown calls, up to the first attribute that the
\* report does not have
DisplayReport(report) ==
  LET o1 == <<Success>>
  IN IF ~HasAttr(report, "risk_score")
       THEN [out |-> o1, exc |-> AttributeError(report, "risk_score")]
     ELSE LET o2 == Append(o1, ScoreLine(report.risk_score))
          IN IF ~HasAttr(report, "risk_summary")
               THEN [out |-> o2, exc |-> AttributeError(report, "risk_summary")]
             ELSE LET o3 == o2 \o <<SummaryLine(report.risk_summary), FactorsHeader>>
                  IN IF ~HasAttr(report, "risk_factors")
                       THEN [out |-> o3, exc |-> AttributeError(report, "risk_factors")]
                     ELSE [out |-> o3 \o FactorLines(report.risk_factors),
                           exc |-> NoExc]

\* ---------------------------------------------------------------- state
VARIABLES
  env_key,        \* os.getenv("OPENROUTER_API_KEY"), fixed for the process
  customer_name,  \* st.text_input("Customer Name", ...)
  industry,       \* st.text_input("Industry Sector", ...)
  description,    \* st.text_area("Company Summary", ...)
  run_analysis,   \* st.button(...): TRUE in the execution the click triggers
  pc,             \* position of the current script execution
  sent,           \* the prompt handed to crew.kickoff() in this execution
  reply,          \* the model's reply received in this execution
  result,         \* what crew.kickoff() returned
  exc,            \* the exception raised inside the try block
  out,            \* st.success / st.markdown / st.error calls of this execution
  uncaught,       \* the exception that left the script, if any
  runs,           \* script executions so far
  clicks,         \* executions triggered by a click on the button
  kickoffs        \* calls of crew.kickoff() so far

vars == <<env_key, customer_name, industry, description, run_analysis, pc, sent,
          reply, result, exc, out, uncaught, runs, clicks, kickoffs>>

form == <<customer_name, industry, description, run_analysis>>

\* the first execution: the page is loaded, the widgets hold their defaults
Init ==
  /\ env_key \in EnvKeys
  /\ customer_name = DefaultName
  /\ industry = DefaultIndustry
  /\ description = DefaultDescription
  /\ run_analysis = FALSE
  /\ pc = "top"
  /\ sent = NoPrompt
  /\ reply = NoReply
  /\ result = NoneObj
  /\ exc = NoExc
  /\ out = <<>>
  /\ uncaught = NoExc
  /\ runs = 1
  /\ clicks = 0
  /\ kickoffs = 0

\* a re-execution that keeps the page of the previous execution
Rerun_KeepPage ==
  /\ pc = "done"
  /\ runs < MaxRuns
  /\ \E n \in Names, i \in Industries, d \in Descriptions, click \in BOOLEAN :
       /\ customer_name' = n
       /\ industry' = i
       /\ description' = d
       /\ run_analysis' = click
       /\ clicks' = IF click THEN clicks + 1 ELSE clicks
  /\ pc' = "top"
  /\ sent' = NoPrompt
  /\ reply' = NoReply
  /\ result' = NoneObj
  /\ exc' = NoExc
  /\ uncaught' = NoExc
  /\ runs' = runs + 1
  /\ UNCHANGED <<env_key, kickoffs, out>>

\* a user interaction re-executes the script from the top with the widget
\* values of that moment; the page of the previous execution is replaced
Rerun ==
  /\ pc = "done"
  /\ runs < MaxRuns
  /\ \E n \in Names, i \in Industries, d \in Descriptions, click \in BOOLEAN :
       /\ customer_name' = n
       /\ industry' = i
       /\ description' = d
       /\ run_analysis' = click
       /\ clicks' = IF click THEN clicks + 1 ELSE clicks
  /\ pc' = "top"
  /\ sent' = NoPrompt
  /\ reply' = NoReply
  /\ result' = NoneObj
  /\ exc' = NoExc
  /\ out' = <<>>
  /\ uncaught' = NoExc
  /\ runs' = runs + 1
  /\ UNCHANGED <<env_key, kickoffs>>

\* a key check that only tests for None
Truthy_NotNone(k) == k # Unset

\* truth value of the key in "assert openrouter_api_key"
Truthy(k) == k \notin {Unset, ""}

\* openrouter_api_key = os.getenv(...); assert openrouter_api_key, "..."
LoadKey ==
  /\ pc = "top"
  /\ IF Truthy(env_key)
       THEN pc' = "ready" /\ UNCHANGED uncaught
       ELSE pc' = "done" /\ uncaught' = <<"AssertionError">>
  /\ UNCHANGED <<env_key, form, sent, reply, result, exc, out, runs, clicks, kickoffs>>

\* a script that runs the analysis without looking at the button
RunRequested_Always == TRUE

\* if run_analysis:
RunRequested == run_analysis

\* if run_analysis: ... result = run_fraud_crew(customer_name, industry,
\* description), up to the blocking crew.kickoff()
StartRun ==
  /\ pc = "ready"
  /\ IF RunRequested
       THEN /\ pc' = "submitting"
            /\ sent' = BuildPrompt(customer_name, industry, description)
            /\ kickoffs' = kickoffs + 1
       ELSE /\ pc' = "done"
            /\ UNCHANGED <<sent, kickoffs>>
  /\ UNCHANGED <<env_key, form, reply, result, exc, out, uncaught, runs, clicks>>

\* crew.kickoff() returns a result built from the model's reply
KickoffReturns ==
  /\ pc = "submitting"
  /\ \E r \in Replies, shape \in Shapes :
       /\ shape = "Model" => Validates(r)
       /\ reply' = r
       /\ result' = MakeResult(shape, ConvertReply(r))
  /\ pc' = "returned"
  /\ UNCHANGED <<env_key, form, sent, exc, out, uncaught, runs, clicks, kickoffs>>

\* crew.kickoff() raises on a reply that does not fit the schema
KickoffRejects ==
  /\ pc = "submitting"
  /\ \E r \in Replies :
       /\ ~Validates(r)
       /\ reply' = r
  /\ exc' = <<"ValidationError">>
  /\ pc' = "raised"
  /\ UNCHANGED <<env_key, form, sent, result, out, uncaught, runs, clicks, kickoffs>>

\* crew.kickoff() raises: network failure, endpoint error, refused key
KickoffFails ==
  /\ pc = "submitting"
  /\ \E e \in TransportErrors : exc' = e
  /\ pc' = "raised"
  /\ UNCHANGED <<env_key, form, sent, reply, result, out, uncaught, runs, clicks, kickoffs>>

\* the rest of the try block: pick the report, display it
Display ==
  /\ pc = "returned"
  /\ LET x == ExtractReport(result)
         d == DisplayReport(x.report)
     IN IF x.exc # NoExc
          THEN /\ exc' = x.exc
               /\ pc' = "raised"
               /\ UNCHANGED out
          ELSE /\ out' = out \o d.out
               /\ exc' = d.exc
               /\ pc' = IF d.exc = NoExc THEN "done" ELSE "raised"
  /\ UNCHANGED <<env_key, form, sent, reply, result, uncaught, runs, clicks, kickoffs>>

\* a handler that calls the crew again
HandleException_Retry ==
  /\ pc = "raised"
  /\ out' = Append(out, ErrorBox(exc))
  /\ pc' = "submitting"
  /\ kickoffs' = kickoffs + 1
  /\ UNCHANGED <<env_key, form, sent, reply, result, exc, uncaught, runs, clicks>>

\* a handler that catches connection errors only
HandleException_Narrow ==
  /\ pc = "raised"
  /\ IF exc = <<"ConnectionError">>
       THEN out' = Append(out, ErrorBox(exc)) /\ UNCHANGED uncaught
       ELSE uncaught' = exc /\ UNCHANGED out
  /\ pc' = "done"
  /\ UNCHANGED <<env_key, form, sent, reply, result, exc, runs, clicks, kickoffs>>

\* except Exception as e: st.error(f"Error: {e}")
HandleException ==
  /\ pc = "raised"
  /\ out' = Append(out, ErrorBox(exc))
  /\ pc' = "done"
  /\ UNCHANGED <<env_key, form, sent, reply, result, exc, uncaught, runs, clicks, kickoffs>>

Next ==
  \/ Rerun
  \/ LoadKey
  \/ StartRun
  \/ KickoffReturns
  \/ KickoffRejects
  \/ KickoffFails
  \/ Display
  \/ HandleException

Spec == Init /\ [][Next]_vars

\* ------------------------------------------------------------ properties
KeyAbsent == env_key \in {Unset, ""}
InTry == pc \in {"submitting", "returned", "raised"}
Kinds(page) == {page[i].kind : i \in 1..Len(page)}
Count(page, k) == Cardinality({i \in 1..Len(page) : page[i].kind = k})
ReplyReceived == reply # NoReply
OutOfSchema(r) ==
  r.risk_score < 0 \/ r.risk_score > 100 \/ Len(r.risk_factors) # 3

\* C1: with OPENROUTER_API_KEY unset or empty no execution, clicked or not,
\* enters the try block or calls crew.kickoff(): no prompt is sent.
C1_NoRequestWithoutKey ==
  KeyAbsent => ~InTry /\ kickoffs = 0 /\ sent = NoPrompt

C1_Witness ==
  KeyAbsent /\ run_analysis /\ pc = "done" /\ uncaught = <<"AssertionError">>

\* C2: a reply with a score outside [0,10] or with other than 3 factors is
\* never displayed (no st.markdown at all), and the execution that received
\* it ends with the error box, whichever extraction branch the result takes.
C2_InvalidReplyRejected ==
  (ReplyReceived /\ OutOfSchema(reply)) =>
     /\ "markdown" \notin Kinds(out)
     /\ pc = "done" => (out # <<>> /\ out[Len(out)].kind = "error")

C2_Witness ==
  /\ pc = "done"
  /\ reply.risk_score = 110
  /\ Len(reply.risk_factors) = 3
  /\ HasAttr(result, "pydantic")
  /\ out[Len(out)].kind = "error"

\* C3 (as claimed): the prompt handed to the crew contains the name, the
\* industry and the description verbatim.
C3_PromptContainsAllThree ==
  sent # NoPrompt =>
     /\ PromptContains(sent, customer_name)
     /\ PromptContains(sent, industry)
     /\ PromptContains(sent, description)

\* C4: every click leads to exactly one crew.kickoff(): with a key the
\* number of calls equals the number of clicks whose execution has reached
\* the call, also after a failure; without a key it is 0.
C4_OneRequestPerRun ==
  kickoffs = IF KeyAbsent THEN 0
             ELSE IF run_analysis /\ pc \in {"top", "ready"} THEN clicks - 1
             ELSE clicks

C4_Witness ==
  /\ pc = "done"
  /\ clicks = 2
  /\ kickoffs = 2
  /\ exc \in TransportErrors
  /\ out = <<ErrorBox(exc)>>

\* C5 (as claimed): a failing run shows the error message and nothing else:
\* no success banner, no score, summary or factor line.
C5_NoPartialResult ==
  "error" \in Kinds(out) => Len(out) = 1

\* C6: a run that ends without an exception on a well-formed reply shows the
\* banner, "<score>/10", the summary, the header and the three factors
\* numbered 1, 2, 3 in the order of the reply.
C6_DisplayOfValidReply ==
  (pc = "done" /\ ReplyReceived /\ ~OutOfSchema(reply) /\ exc = NoExc) =>
     /\ Len(out) = 7
     /\ out[1].kind = "success"
     /\ out[2].body = <<"Risk Score: ", ToString(reply.risk_score \div 10), ".",
                        ToString(reply.risk_score % 10), "/10">>
     /\ out[3].body = <<"Summary: ", reply.risk_summary>>
     /\ \A i \in 1..3 :
          out[4 + i].body = <<"- ", ToString(i), ". ", reply.risk_factors[i]>>
     /\ \A i \in 2..7 : out[i].kind = "markdown"

C6_Witness ==
  /\ pc = "done"
  /\ reply.risk_score = 75
  /\ reply.risk_factors = <<"a", "b", "c">>
  /\ Len(out) = 7

\* what an execution shows when nothing precedes it
FreshPage ==
  IF KeyAbsent \/ ~run_analysis THEN <<>>
  ELSE IF result = NoneObj THEN <<ErrorBox(exc)>>
  ELSE LET x == ExtractReport(result)
           d == DisplayReport(x.report)
       IN IF x.exc # NoExc THEN <<ErrorBox(x.exc)>>
          ELSE IF d.exc # NoExc THEN Append(d.out, ErrorBox(d.exc))
          ELSE d.out

\* C7: what an execution sends and shows depends on its own form values and
\* its own reply only: the prompt is the one built from the current form,
\* the finished page is the page a first execution would show.
C7_NoLeakAcrossRuns ==
  /\ sent \in {NoPrompt, BuildPrompt(customer_name, industry, description)}
  /\ InTry => sent # NoPrompt
  /\ pc = "done" => out = FreshPage

C7_Witness ==
  /\ pc = "done"
  /\ runs = 3
  /\ clicks = 2
  /\ Len(out) = 7
  /\ customer_name = <<>>

\* C8 (as claimed): a run that entered Submitting ends in exactly one of
\* Success (the banner is shown) and Failed (the error is shown).
C8_ExactlyOneOutcome ==
  (pc = "done" /\ sent # NoPrompt) =>
     ("success" \in Kinds(out)) # ("error" \in Kinds(out))

C10_NothingWithoutClick ==
  ~run_analysis => ~InTry /\ sent = NoPrompt /\ reply = NoReply /\ out = <<>>

C10_Witness ==
  /\ ~run_analysis
  /\ ~KeyAbsent
  /\ pc = "done"
  /\ runs = 2
  /\ industry = <<"fraud">>

====
